---- MODULE Spec2Model ----
(***************************************************************************)
(* Model of rkvst_simplehash/v1.py: the simplehash V1 anchor.              *)
(*                                                                         *)
(*   check_event    __check_event, the admission check of one event        *)
(*   redact_event   projection of an event on V1_FIELDS                    *)
(*   binary_encode  bencodepy.encode, the canonical byte encoding          *)
(*   list_events    the paginating generator (actions Get, Yield,          *)
(*                  NextPage)                                              *)
(*   anchor_events  the loop that validates, redacts, encodes and hashes   *)
(*                  (actions Begin, CheckEvent, Redact, Encode, Update,    *)
(*                  Return)                                                *)
(*                                                                         *)
(* Python values are tagged records [t, v]: text, integers, lists and      *)
(* dicts.  A dict keeps its insertion order: it is a sequence of           *)
(* <<key, value>> pairs with distinct keys.  Bytes are TLA+ strings; the   *)
(* SHA-256 state is the string of all bytes it has consumed.               *)
(***************************************************************************)
EXTENDS Integers, Sequences, FiniteSets, TLC

(***************************************************************************)
(* Bounds of the model.                                                    *)
(***************************************************************************)
\* pages the upstream service serves for one window
MaxPages == 2
\* events on one page
MaxPageLen == 2
\* required fields an input event of the validator may lack
MaxMissing == 2
\* events the service holds for one window, over all pages
MaxEvents == 3

(***************************************************************************)
(* Python values.                                                          *)
(***************************************************************************)
PyStr(s) == [t |-> "str", v |-> s]
PyInt(n) == [t |-> "int", v |-> n]
PyList(xs) == [t |-> "list", v |-> xs]
PyDict(items) == [t |-> "dict", v |-> items]
\* the value of an expression that was never evaluated
NoValue == [t |-> "none", v |-> ""]

Reverse(s) == [i \in 1..Len(s) |-> s[Len(s) + 1 - i]]
Rotate(s, n) == [i \in 1..Len(s) |-> s[((i - 1 + n) % Len(s)) + 1]]

\* keys of a dict, d[k] and k in d, for a dict given by its items
Keys(items) == {items[i][1] : i \in 1..Len(items)}
HasKey(items, k) == k \in Keys(items)
Lookup(items, k) ==
  IF HasKey(items, k)
  THEN items[CHOOSE i \in 1..Len(items) : items[i][1] = k][2]
  ELSE NoValue

(***************************************************************************)
(* V1_FIELDS, v1.py lines 15-30.                                           *)
(***************************************************************************)
V1_FIELDS ==
  { "identity", "asset_identity", "event_attributes", "asset_attributes",
    "operation", "behaviour", "timestamp_declared", "timestamp_accepted",
    "timestamp_committed", "principal_accepted", "principal_declared",
    "confirmation_status", "from", "tenant_identity" }

\* The exception an operation raises, or NoError.  identity, missing and
\* status are what the message of a validation error reports.
Raise(kind, identity, missing, status) ==
  [kind |-> kind, identity |-> identity, missing |-> missing, status |-> status]
NoError == Raise("None", NoValue, {}, NoValue)
Exception(kind) == Raise(kind, NoValue, {}, NoValue)

(***************************************************************************)
(* __check_event, v1.py lines 46-59.  The f-string of line 53 evaluates    *)
(* event['identity'] before SimpleHashFieldMissing is constructed, so an   *)
(* event without the key identity raises KeyError there.                   *)
(***************************************************************************)
missing_fields(event) == V1_FIELDS \ Keys(event)

check_status_value(status) == status \notin {PyStr("FAILED"), PyStr("CONFIRMED")}

\* __check_event without its status check
check_event_drop_status(event) ==
  LET missing == missing_fields(event) IN
  IF missing # {}
  THEN IF HasKey(event, "identity")
       THEN Raise("SimpleHashFieldMissing", Lookup(event, "identity"), missing, NoValue)
       ELSE Raise("KeyError", NoValue, {"identity"}, NoValue)
  ELSE NoError

check_event(event) ==
  LET missing == missing_fields(event) IN
  IF missing # {}
  THEN IF HasKey(event, "identity")
       THEN Raise("SimpleHashFieldMissing", Lookup(event, "identity"), missing, NoValue)
       ELSE Raise("KeyError", NoValue, {"identity"}, NoValue)
  ELSE IF check_status_value(Lookup(event, "confirmation_status"))
  THEN Raise("SimpleHashPendingEventFound", Lookup(event, "identity"), {},
             Lookup(event, "confirmation_status"))
  ELSE NoError

(***************************************************************************)
(* redact_event, v1.py lines 62-64.  The comprehension iterates the set    *)
(* V1_FIELDS, whose iteration order Python leaves open: order is any       *)
(* sequence that lists V1_FIELDS once each, and the new dict is built in   *)
(* that order.  A key the event lacks raises KeyError.                     *)
(***************************************************************************)
redact_raises(event) == \E k \in V1_FIELDS : ~HasKey(event, k)

\* a redaction that leaves the field identity out
RECURSIVE redact_event_no_identity(_, _)
redact_event_no_identity(event, order) ==
  IF order = <<>> THEN <<>>
  ELSE (IF Head(order) = "identity" THEN <<>>
        ELSE <<<<Head(order), Lookup(event, Head(order))>>>>)
       \o redact_event_no_identity(event, Tail(order))

RECURSIVE redact_event(_, _)
redact_event(event, order) ==
  IF order = <<>> THEN <<>>
  ELSE <<<<Head(order), Lookup(event, Head(order))>>>>
         \o redact_event(event, Tail(order))

(***************************************************************************)
(* bencodepy.encode, called at v1.py line 131 ("bencode the event, this    *)
(* orders dictionary keys").  Text is <decimal byte length>:<bytes>, an    *)
(* integer i<decimal>e, a list l<items>e, a dict d<key value ...>e with    *)
(* the keys sorted by their bytes.                                         *)
(***************************************************************************)
\* the UTF-8 bytes of the key strings the model uses
UTF8 ==
  [ identity |-> <<105, 100, 101, 110, 116, 105, 116, 121>>,
    asset_identity |-> <<97, 115, 115, 101, 116, 95, 105, 100, 101, 110, 116, 105, 116, 121>>,
    event_attributes |-> <<101, 118, 101, 110, 116, 95, 97, 116, 116, 114, 105, 98, 117, 116, 101, 115>>,
    asset_attributes |-> <<97, 115, 115, 101, 116, 95, 97, 116, 116, 114, 105, 98, 117, 116, 101, 115>>,
    operation |-> <<111, 112, 101, 114, 97, 116, 105, 111, 110>>,
    behaviour |-> <<98, 101, 104, 97, 118, 105, 111, 117, 114>>,
    timestamp_declared |-> <<116, 105, 109, 101, 115, 116, 97, 109, 112, 95, 100, 101, 99, 108, 97, 114, 101, 100>>,
    timestamp_accepted |-> <<116, 105, 109, 101, 115, 116, 97, 109, 112, 95, 97, 99, 99, 101, 112, 116, 101, 100>>,
    timestamp_committed |-> <<116, 105, 109, 101, 115, 116, 97, 109, 112, 95, 99, 111, 109, 109, 105, 116, 116, 101, 100>>,
    principal_accepted |-> <<112, 114, 105, 110, 99, 105, 112, 97, 108, 95, 97, 99, 99, 101, 112, 116, 101, 100>>,
    principal_declared |-> <<112, 114, 105, 110, 99, 105, 112, 97, 108, 95, 100, 101, 99, 108, 97, 114, 101, 100>>,
    confirmation_status |-> <<99, 111, 110, 102, 105, 114, 109, 97, 116, 105, 111, 110, 95, 115, 116, 97, 116, 117, 115>>,
    from |-> <<102, 114, 111, 109>>,
    tenant_identity |-> <<116, 101, 110, 97, 110, 116, 95, 105, 100, 101, 110, 116, 105, 116, 121>>,
    block_number |-> <<98, 108, 111, 99, 107, 95, 110, 117, 109, 98, 101, 114>>,
    transaction_id |-> <<116, 114, 97, 110, 115, 97, 99, 116, 105, 111, 110, 95, 105, 100>>,
    arc_display_type |-> <<97, 114, 99, 95, 100, 105, 115, 112, 108, 97, 121, 95, 116, 121, 112, 101>>,
    arc_description |-> <<97, 114, 99, 95, 100, 101, 115, 99, 114, 105, 112, 116, 105, 111, 110>>,
    subject |-> <<115, 117, 98, 106, 101, 99, 116>>,
    issuer |-> <<105, 115, 115, 117, 101, 114>> ]

to_binary(k) == UTF8[k]

\* a < b for byte strings, as Python compares bytes
RECURSIVE BytesLessFrom(_, _, _)
BytesLessFrom(a, b, i) ==
  IF i > Len(b) THEN FALSE
  ELSE IF i > Len(a) THEN TRUE
  ELSE IF a[i] # b[i] THEN a[i] < b[i]
  ELSE BytesLessFrom(a, b, i + 1)

BytesLess(a, b) == BytesLessFrom(a, b, 1)

\* items with item put before the first item whose key is greater
RECURSIVE InsertItem(_, _)
InsertItem(item, items) ==
  IF items = <<>> THEN <<item>>
  ELSE IF BytesLess(to_binary(item[1]), to_binary(Head(items)[1]))
       THEN <<item>> \o items
       ELSE <<Head(items)>> \o InsertItem(item, Tail(items))

\* the items of a dict sorted by key
RECURSIVE SortItems(_)
SortItems(items) ==
  IF items = <<>> THEN <<>> ELSE InsertItem(Head(items), SortItems(Tail(items)))

encode_bytes(s) == ToString(Len(s)) \o ":" \o s
encode_int(n) == "i" \o ToString(n) \o "e"

RECURSIVE binary_encode(_)
RECURSIVE encode_elements(_)
RECURSIVE encode_items(_)
encode_elements(xs) ==
  IF xs = <<>> THEN "" ELSE binary_encode(Head(xs)) \o encode_elements(Tail(xs))

encode_items(items) ==
  IF items = <<>> THEN ""
  ELSE encode_bytes(Head(items)[1]) \o binary_encode(Head(items)[2])
         \o encode_items(Tail(items))

\* a dict encoded in its insertion order
encode_dict_unsorted(items) == "d" \o encode_items(items) \o "e"

encode_dict(items) == "d" \o encode_items(SortItems(items)) \o "e"

binary_encode(x) ==
  CASE x.t = "str" -> encode_bytes(x.v)
    [] x.t = "int" -> encode_int(x.v)
    [] x.t = "list" -> "l" \o encode_elements(x.v) \o "e"
    [] x.t = "dict" -> encode_dict(x.v)

(***************************************************************************)
(* hashlib.sha256, v1.py lines 120, 134 and 137.  The hash context is the  *)
(* string of the bytes consumed so far.  hexdigest of no bytes is the      *)
(* SHA-256 of the empty input; any other digest is written sha256(<bytes>),*)
(* which treats the hash as injective on its input.                        *)
(***************************************************************************)
sha256 == ""

\* a hash context that forgets what it consumed before
update_reset(hasher, bytes) == bytes

update(hasher, bytes) == hasher \o bytes

EmptyDigest == "e3b0c44298fc1c149afbf4c8996fb92427ae41e4649b934ca495991b7852b855"

hexdigest(hasher) ==
  IF hasher = "" THEN EmptyDigest ELSE "sha256(" \o hasher \o ")"

(***************************************************************************)
(* The events the model draws its inputs from: the 14 required fields and  *)
(* two fields outside them, as the events API returns them.                *)
(***************************************************************************)
\* the order in which v1.py lists V1_FIELDS
V1Order ==
  << "identity", "asset_identity", "event_attributes", "asset_attributes",
     "operation", "behaviour", "timestamp_declared", "timestamp_accepted",
     "timestamp_committed", "principal_accepted", "principal_declared",
     "confirmation_status", "from", "tenant_identity" >>

\* the iteration orders of the set V1_FIELDS the model tries
SetOrders == {V1Order, Reverse(V1Order), Rotate(V1Order, 5)}

ExtraFields == {"block_number", "transaction_id"}

\* insertion orders of the keys of a raw event
KeyOrder == <<"block_number">> \o V1Order \o <<"transaction_id">>
KeyOrders == {KeyOrder, Reverse(KeyOrder)}

Identities == {PyStr("assets/a1/events/e1"), PyStr("assets/a1/events/e2")}

TerminalStatuses == {PyStr("CONFIRMED"), PyStr("FAILED")}

\* event_attributes: the same mapping in two insertion orders, and another
Attrs1 ==
  PyDict(<< <<"arc_display_type", PyStr("Safety Conformance")>>,
            <<"arc_description", PyStr("inspection")>> >>)
Attrs1Swapped ==
  PyDict(<< <<"arc_description", PyStr("inspection")>>,
            <<"arc_display_type", PyStr("Safety Conformance")>> >>)
Attrs2 ==
  PyDict(<< <<"arc_display_type", PyStr("Safety Conformance")>>,
            <<"arc_description", PyStr("inspection 2")>> >>)
AttrValues == {Attrs1, Attrs1Swapped, Attrs2}

Principal ==
  PyDict(<< <<"subject", PyStr("user-1")>>, <<"issuer", PyStr("idp")>> >>)

FieldValue(k, identity, status, attrs) ==
  CASE k = "identity" -> identity
    [] k = "asset_identity" -> PyStr("assets/a1")
    [] k = "event_attributes" -> attrs
    [] k = "asset_attributes" -> PyDict(<<>>)
    [] k = "operation" -> PyStr("Record")
    [] k = "behaviour" -> PyStr("RecordEvidence")
    [] k = "timestamp_declared" -> PyStr("2022-05-01T10:00:00Z")
    [] k = "timestamp_accepted" -> PyStr("2022-05-01T10:00:01Z")
    [] k = "timestamp_committed" -> PyStr("2022-05-01T10:00:02Z")
    [] k = "principal_accepted" -> Principal
    [] k = "principal_declared" -> Principal
    [] k = "confirmation_status" -> status
    [] k = "from" -> PyStr("0x0")
    [] k = "tenant_identity" -> PyStr("tenant/t1")
    [] k = "block_number" -> PyInt(12)
    [] k = "transaction_id" -> PyList(<<PyStr("0xab"), PyInt(-3)>>)

\* the raw event with the keys `keys`, inserted in the order `order`
RECURSIVE RawEvent(_, _, _, _, _)
RawEvent(order, keys, identity, status, attrs) ==
  IF order = <<>> THEN <<>>
  ELSE (IF Head(order) \in keys
        THEN <<<<Head(order), FieldValue(Head(order), identity, status, attrs)>>>>
        ELSE <<>>)
       \o RawEvent(Tail(order), keys, identity, status, attrs)

\* no event: the value of event before the first one is pulled
NoEvent == <<>>

\* a == b as Python compares values: dicts as mappings, whatever their
\* insertion order; lists element by element
RECURSIVE PyEq(_, _)
PyEq(a, b) ==
  IF a.t # b.t THEN FALSE
  ELSE IF a.t = "dict"
  THEN /\ Keys(a.v) = Keys(b.v)
       /\ \A k \in Keys(a.v) : PyEq(Lookup(a.v, k), Lookup(b.v, k))
  ELSE IF a.t = "list"
  THEN /\ Len(a.v) = Len(b.v)
       /\ \A i \in 1..Len(a.v) : PyEq(a.v[i], b.v[i])
  ELSE a.v = b.v

(***************************************************************************)
(* anchor_events over a source that delivers `events` and then ends,       *)
(* v1.py lines 117-137, as a function: the digest, or the error of the     *)
(* first event __check_event rejects.                                      *)
(***************************************************************************)
NoDigest == ""

canonical_bytes(event, order) == binary_encode(PyDict(redact_event(event, order)))

RECURSIVE anchor_loop(_, _, _)
anchor_loop(events, order, hasher) ==
  IF events = <<>> THEN [digest |-> hexdigest(hasher), error |-> NoError]
  ELSE IF check_event(Head(events)) # NoError
  THEN [digest |-> NoDigest, error |-> check_event(Head(events))]
  ELSE anchor_loop(Tail(events), order,
                   update(hasher, canonical_bytes(Head(events), order)))

anchor_events(events, order) == anchor_loop(events, order, sha256)

(***************************************************************************)
(* State.                                                                  *)
(***************************************************************************)
VARIABLES
  \* one call of anchor_events against an upstream service
  pages,          \* the responses the service holds, page 1 first
  pc,             \* where the call is: "start", "get", "for", "check",
                  \* "redact", "encode", "update", "exhausted", "returned",
                  \* "raised"
  params,         \* list_events: the params of the next request
  requests,       \* the params of every request made so far
  data,           \* list_events: the response being iterated
  idx,            \* list_events: events of data already yielded
  event,          \* anchor_events: the event pulled last
  redacted_event, \* anchor_events: its redaction
  bencoded_event, \* anchor_events: its bytes
  hasher,         \* anchor_events: the bytes the hash context consumed
  yielded,        \* every event list_events yielded, in order
  fed,            \* every event whose bytes went into hasher, in order
  result,         \* the digest returned, or NoDigest
  error,          \* the exception that ended the call, or NoError
  \* the pure functions applied to drawn inputs
  e1, e2,         \* input events of the validator and the canonicalizer
  verdict,        \* what __check_event did with e1
  red1, red2,     \* redactions of e1 and e2
  bytes1, bytes2, \* canonical bytes of e1 and e2
  out12, out21,   \* anchor_events over [e1, e2] and over [e2, e1]
  ppc             \* "input", "checked", "canon", "anchored"

avars == <<pages, pc, params, requests, data, idx, event, redacted_event,
           bencoded_event, hasher, yielded, fed, result, error>>

pvars == <<e1, e2, verdict, red1, red2, bytes1, bytes2, out12, out21, ppc>>

NoOutcome == [digest |-> NoDigest, error |-> NoError]

vars == <<avars, pvars>>

(***************************************************************************)
(* The upstream service.  A response is what requests.get and              *)
(* response.json() make of it: the fetch itself may fail, the body may be  *)
(* no JSON, JSON that is no object, or an object with or without the key   *)
(* events.  The value under events is a list of events, null, or an empty  *)
(* object; next_page_token is a token, the empty string, or absent/null    *)
(* (PyNone, what data.get returns).                                        *)
(***************************************************************************)
PyNone == [t |-> "None", v |-> ""]

Response(fetch, json, has_events, events, token) ==
  [fetch |-> fetch, json |-> json, has_events |-> has_events,
   events |-> events, next_page_token |-> token]

NoResponse == Response("none", "none", FALSE, PyNone, PyNone)

\* the token that names page j, j > 1
PageToken(j) == PyStr("page-" \o ToString(j))

\* v1.py lines 86-92, and line 114 for a later page
FirstParams == [window |-> TRUE, page_token |-> PyNone]

\* line 114 left out: every request carries the first params
next_params_first(page_token) == FirstParams

next_params(page_token) == [window |-> FALSE, page_token |-> page_token]

NoParams == [window |-> FALSE, page_token |-> PyNone]

\* what the service answers to a request with these params
Serve(chain, p) ==
  IF p.window THEN chain[1]
  ELSE IF \E j \in 2..Len(chain) : PageToken(j) = p.page_token
  THEN chain[CHOOSE j \in 2..Len(chain) : PageToken(j) = p.page_token]
  ELSE Response("ConnectionError", "none", FALSE, PyNone, PyNone)

\* the events the model puts on pages
EvA ==
  RawEvent(KeyOrder, V1_FIELDS, PyStr("assets/a1/events/e1"),
           PyStr("CONFIRMED"), Attrs1)
\* another event, with its keys inserted in another order and two more keys
EvB ==
  RawEvent(Reverse(KeyOrder), V1_FIELDS \cup ExtraFields,
           PyStr("assets/a1/events/e2"), PyStr("FAILED"), Attrs1Swapped)
EvPending ==
  RawEvent(KeyOrder, V1_FIELDS, PyStr("assets/a1/events/e2"),
           PyStr("PENDING"), Attrs1)
EvNoCommitted ==
  RawEvent(KeyOrder, V1_FIELDS \ {"timestamp_committed"},
           PyStr("assets/a1/events/e2"), PyStr("CONFIRMED"), Attrs1)
Pool == {EvA, EvB, EvPending, EvNoCommitted}

\* the responses that are no object with a list under events
BadResponses ==
  { Response("ConnectionError", "none", FALSE, PyNone, PyNone),
    Response("ok", "invalid", FALSE, PyNone, PyNone),
    Response("ok", "array", FALSE, PyNone, PyNone),
    Response("ok", "object", FALSE, PyNone, PyNone),
    Response("ok", "object", TRUE, PyNone, PyNone),
    Response("ok", "object", TRUE, PyDict(<<>>), PyNone) }

\* how the last page ends the chain: a list of events with no token or
\* with the empty token, or a bad response
LastPages ==
  { Response("ok", "object", TRUE, PyList(<<>>), token) :
      token \in {PyNone, PyStr("")} }
  \cup BadResponses

RECURSIVE SumTo(_, _)
SumTo(lens, j) == IF j = 0 THEN 0 ELSE SumTo(lens, j - 1) + lens[j]

\* the chain of Len(lens) pages that holds the events evs, lens[j] of them
\* on page j; every page but the last names its successor
Chain(lens, evs, last) ==
  [ j \in 1..Len(lens) |->
      IF j = Len(lens) /\ last.events.t # "list" THEN last
      ELSE Response("ok", "object", TRUE,
                    PyList(SubSeq(evs, SumTo(lens, j - 1) + 1, SumTo(lens, j))),
                    IF j < Len(lens) THEN PageToken(j + 1)
                    ELSE last.next_page_token) ]

(***************************************************************************)
(* list_events, v1.py lines 85-114, and anchor_events, lines 117-137.      *)
(***************************************************************************)
\* `for event in events` (line 107) iterates a list, or the keys of a dict
is_iterable(events) == events.t \in {"list", "dict"}
elements(events) == IF events.t = "list" THEN events.v ELSE <<>>

\* `not page_token`, line 111
not_token(page_token) == page_token = PyNone \/ page_token = PyStr("")

\* where an exception of __check_event takes the loop of lines 123-134
\* a rejected event that is skipped instead of ending the loop
after_check_skip(v) == IF v = NoError THEN "redact" ELSE "for"

after_check(v) == IF v = NoError THEN "redact" ELSE "raised"

\* lines 99-107: what the request, response.json(), data["events"] and
\* iter(events) raise for a response
response_error_no_events(r) ==
  IF r.fetch # "ok" THEN Exception("ConnectionError")
  ELSE IF r.json = "invalid" THEN Exception("JSONDecodeError")
  ELSE IF r.json # "object" THEN Exception("TypeError")
  ELSE IF ~r.has_events THEN Exception("SimpleHashFieldError")
  ELSE IF ~is_iterable(r.events) THEN Exception("TypeError")
  ELSE IF elements(r.events) = <<>> THEN Exception("SimpleHashFieldError")
  ELSE NoError

response_error(r) ==
  IF r.fetch # "ok" THEN Exception("ConnectionError")
  ELSE IF r.json = "invalid" THEN Exception("JSONDecodeError")
  ELSE IF r.json # "object" THEN Exception("TypeError")
  ELSE IF ~r.has_events THEN Exception("SimpleHashFieldError")
  ELSE IF ~is_iterable(r.events) THEN Exception("TypeError")
  ELSE NoError

idle_avars ==
  /\ pages = <<>>
  /\ pc = "idle"
  /\ params = NoParams
  /\ requests = <<>>
  /\ data = NoResponse
  /\ idx = 0
  /\ event = NoEvent
  /\ redacted_event = NoEvent
  /\ bencoded_event = ""
  /\ hasher = ""
  /\ yielded = <<>>
  /\ fed = <<>>
  /\ result = NoDigest
  /\ error = NoError

idle_pvars ==
  /\ e1 = NoEvent
  /\ e2 = NoEvent
  /\ verdict = NoError
  /\ red1 = NoEvent
  /\ red2 = NoEvent
  /\ bytes1 = ""
  /\ bytes2 = ""
  /\ out12 = NoOutcome
  /\ out21 = NoOutcome
  /\ ppc = "idle"

Init ==
  /\ \E n \in 1..MaxPages :
       \E lens \in [1..n -> 0..MaxPageLen] :
         /\ SumTo(lens, n) <= MaxEvents
         /\ \E evs \in [1..SumTo(lens, n) -> Pool] :
              \E last \in LastPages :
                /\ last.events.t # "list" => lens[n] = 0
                /\ pages = Chain(lens, evs, last)
  /\ pc = "start"
  /\ params = NoParams
  /\ requests = <<>>
  /\ data = NoResponse
  /\ idx = 0
  /\ event = NoEvent
  /\ redacted_event = NoEvent
  /\ bencoded_event = ""
  /\ hasher = ""
  /\ yielded = <<>>
  /\ fed = <<>>
  /\ result = NoDigest
  /\ error = NoError
  /\ idle_pvars

\* lines 120-123: the hash context and the generator are created
Begin ==
  /\ pc = "start"
  /\ hasher' = sha256
  /\ params' = FirstParams
  /\ pc' = "get"
  /\ UNCHANGED <<pages, requests, data, idx, event, redacted_event,
                 bencoded_event, yielded, fed, result, error>>
  /\ UNCHANGED pvars

\* lines 99-107: one request, its JSON, data["events"], and iter(events)
Get ==
  /\ pc = "get"
  /\ requests' = Append(requests, params)
  /\ LET r == Serve(pages, params)
         raised == response_error(r)
     IN  IF raised # NoError
         THEN /\ pc' = "raised"
              /\ error' = raised
              /\ UNCHANGED <<data, idx>>
         ELSE /\ pc' = "for"
              /\ data' = r
              /\ idx' = 0
              /\ UNCHANGED error
  /\ UNCHANGED <<pages, params, event, redacted_event, bencoded_event,
                 hasher, yielded, fed, result>>
  /\ UNCHANGED pvars

\* lines 107-108 and 123: the next event of the page goes to the loop
Yield ==
  /\ pc = "for"
  /\ idx < Len(elements(data.events))
  /\ event' = elements(data.events)[idx + 1]
  /\ idx' = idx + 1
  /\ yielded' = Append(yielded, event')
  /\ pc' = "check"
  /\ UNCHANGED <<pages, params, requests, data, redacted_event,
                 bencoded_event, hasher, fed, result, error>>
  /\ UNCHANGED pvars

\* lines 110-114: the page is done; stop, or ask for the next page
NextPage ==
  /\ pc = "for"
  /\ idx = Len(elements(data.events))
  /\ IF not_token(data.next_page_token)
     THEN pc' = "exhausted" /\ UNCHANGED params
     ELSE pc' = "get" /\ params' = next_params(data.next_page_token)
  /\ UNCHANGED <<pages, requests, data, idx, event, redacted_event,
                 bencoded_event, hasher, yielded, fed, result, error>>
  /\ UNCHANGED pvars

\* line 125
CheckEvent ==
  /\ pc = "check"
  /\ pc' = after_check(check_event(event))
  /\ error' = IF pc' = "raised" THEN check_event(event) ELSE error
  /\ UNCHANGED <<pages, params, requests, data, idx, event, redacted_event,
                 bencoded_event, hasher, yielded, fed, result>>
  /\ UNCHANGED pvars

\* line 128
Redact ==
  /\ pc = "redact"
  /\ IF redact_raises(event)
     THEN /\ pc' = "raised"
          /\ error' = Exception("KeyError")
          /\ UNCHANGED redacted_event
     ELSE /\ \E order \in SetOrders : redacted_event' = redact_event(event, order)
          /\ pc' = "encode"
          /\ UNCHANGED error
  /\ UNCHANGED <<pages, params, requests, data, idx, event, bencoded_event,
                 hasher, yielded, fed, result>>
  /\ UNCHANGED pvars

\* line 131
Encode ==
  /\ pc = "encode"
  /\ bencoded_event' = binary_encode(PyDict(redacted_event))
  /\ pc' = "update"
  /\ UNCHANGED <<pages, params, requests, data, idx, event, redacted_event,
                 hasher, yielded, fed, result, error>>
  /\ UNCHANGED pvars

\* line 134
Update ==
  /\ pc = "update"
  /\ hasher' = update(hasher, bencoded_event)
  /\ fed' = Append(fed, event)
  /\ pc' = "for"
  /\ UNCHANGED <<pages, params, requests, data, idx, event, redacted_event,
                 bencoded_event, yielded, result, error>>
  /\ UNCHANGED pvars

\* line 137
Return ==
  /\ pc = "exhausted"
  /\ result' = hexdigest(hasher)
  /\ pc' = "returned"
  /\ UNCHANGED <<pages, params, requests, data, idx, event, redacted_event,
                 bencoded_event, hasher, yielded, fed, error>>
  /\ UNCHANGED pvars

Next ==
  \/ Begin
  \/ Get
  \/ Yield
  \/ NextPage
  \/ CheckEvent
  \/ Redact
  \/ Encode
  \/ Update
  \/ Return

Spec == Init /\ [][Next]_vars

(***************************************************************************)
(* SpecCheck: __check_event applied to one raw event that lacks up to      *)
(* MaxMissing required fields.                                             *)
(***************************************************************************)
MissingSets == {M \in SUBSET V1_FIELDS : Cardinality(M) <= MaxMissing}

CheckStatuses == TerminalStatuses \cup {PyStr("PENDING"), PyStr("STORED")}


InitCheck ==
  /\ idle_avars
  /\ \E order \in KeyOrders, M \in MissingSets, X \in {{}, ExtraFields},
        identity \in Identities, status \in CheckStatuses :
       e1 = RawEvent(order, (V1_FIELDS \ M) \cup X, identity, status, Attrs1)
  /\ e2 = NoEvent
  /\ verdict = NoError
  /\ red1 = NoEvent
  /\ red2 = NoEvent
  /\ bytes1 = ""
  /\ bytes2 = ""
  /\ out12 = NoOutcome
  /\ out21 = NoOutcome
  /\ ppc = "input"

\* __check_event(e1)
Validate ==
  /\ ppc = "input"
  /\ verdict' = check_event(e1)
  /\ ppc' = "checked"
  /\ UNCHANGED <<e1, e2, red1, red2, bytes1, bytes2, out12, out21>>
  /\ UNCHANGED avars

NextCheck == Validate

SpecCheck == InitCheck /\ [][NextCheck]_vars

(***************************************************************************)
(* SpecPair: two raw events that hold all required fields; both are        *)
(* canonicalized, and anchor_events runs over them in both orders.         *)
(***************************************************************************)
\* the key orders and the extra keys of the events of a pair
PairShapes == {<<KeyOrder, {}>>, <<Reverse(KeyOrder), ExtraFields>>}

PairInputs ==
  { RawEvent(shape[1], V1_FIELDS \cup shape[2], identity, status, attrs) :
      shape \in PairShapes, identity \in Identities,
      status \in TerminalStatuses \cup {PyStr("PENDING")}, attrs \in AttrValues }

InitPair ==
  /\ idle_avars
  /\ e1 \in PairInputs
  /\ e2 \in PairInputs
  /\ verdict = NoError
  /\ red1 = NoEvent
  /\ red2 = NoEvent
  /\ bytes1 = ""
  /\ bytes2 = ""
  /\ out12 = NoOutcome
  /\ out21 = NoOutcome
  /\ ppc = "input"

\* lines 125-131 on e1 and on e2, each with its own iteration order
Canonicalize ==
  /\ ppc = "input"
  /\ check_event(e1) = NoError
  /\ check_event(e2) = NoError
  /\ \E o1 \in SetOrders : red1' = redact_event(e1, o1)
  /\ \E o2 \in SetOrders : red2' = redact_event(e2, o2)
  /\ bytes1' = binary_encode(PyDict(red1'))
  /\ bytes2' = binary_encode(PyDict(red2'))
  /\ ppc' = "canon"
  /\ UNCHANGED <<e1, e2, verdict, out12, out21>>
  /\ UNCHANGED avars

\* anchor_events over [e1, e2] and over [e2, e1]
AnchorBoth ==
  /\ ppc = "input"
  /\ \E o1 \in SetOrders : out12' = anchor_events(<<e1, e2>>, o1)
  /\ \E o2 \in SetOrders : out21' = anchor_events(<<e2, e1>>, o2)
  /\ ppc' = "anchored"
  /\ UNCHANGED <<e1, e2, verdict, red1, red2, bytes1, bytes2>>
  /\ UNCHANGED avars

NextPair == Canonicalize \/ AnchorBoth

SpecPair == InitPair /\ [][NextPair]_vars

(***************************************************************************)
(* What the properties below read off a state.                             *)
(***************************************************************************)
\* the event holds every required field and a terminal status
Admissible(e) ==
  /\ V1_FIELDS \subseteq Keys(e)
  /\ Lookup(e, "confirmation_status") \in TerminalStatuses

\* both events hold equal values under every required field
SameRequired(a, b) ==
  \A k \in V1_FIELDS : PyEq(Lookup(a, k), Lookup(b, k))

\* the response to the j-th request
Fetched(j) == Serve(pages, requests[j])

\* the response carries a usable list of events
IsGood(r) ==
  r.fetch = "ok" /\ r.json = "object" /\ r.has_events /\ r.events.t = "list"

PageEvents(r) == IF IsGood(r) THEN r.events.v ELSE <<>>

\* the response carries a continuation token
HasToken(r) == r.next_page_token.t = "str" /\ r.next_page_token.v # ""

\* the events of the first n responses, page after page
RECURSIVE FlattenTo(_)
FlattenTo(n) ==
  IF n = 0 THEN <<>> ELSE FlattenTo(n - 1) \o PageEvents(Fetched(n))

\* the canonical bytes of the events, one after the other
RECURSIVE CanonConcat(_)
CanonConcat(evs) ==
  IF evs = <<>> THEN ""
  ELSE canonical_bytes(Head(evs), V1Order) \o CanonConcat(Tail(evs))

\* some response received so far carries no usable list of events
BadResponseSeen == \E j \in 1..Len(requests) : ~IsGood(Fetched(j))

(***************************************************************************)
(* C1.  When __check_event rejects the k-th event list_events delivers,    *)
(* anchor_events ends with exactly that error: no digest, the hasher holds *)
(* the bytes of the k-1 events before it and nothing of the k-th, no later *)
(* event is pulled, and the last request made is the one that brought the  *)
(* page of the k-th event.                                                 *)
(***************************************************************************)
C1_RejectionAborts ==
  \A k \in 1..Len(yielded) :
    ~Admissible(yielded[k]) =>
      /\ k = Len(yielded)
      /\ pc \in {"check", "raised"}
      /\ pc = "raised" => error = check_event(yielded[k]) /\ error # NoError
      /\ result = NoDigest
      /\ fed = SubSeq(yielded, 1, k - 1)
      /\ hasher = CanonConcat(fed)
      /\ data = Fetched(Len(requests))
      /\ idx >= 1
      /\ PageEvents(data)[idx] = yielded[k]
      /\ yielded = FlattenTo(Len(requests) - 1) \o SubSeq(PageEvents(data), 1, idx)

\* the second event, on the second page, is rejected as pending
C1_Witness ==
  /\ pc = "raised"
  /\ error.kind = "SimpleHashPendingEventFound"
  /\ Len(yielded) = 2
  /\ Len(fed) = 1
  /\ Len(requests) = 2
  /\ Len(PageEvents(Fetched(2))) = 2

(***************************************************************************)
(* C2.  Whatever non-empty set M of required fields an event lacks,        *)
(* __check_event fails with SimpleHashFieldMissing, and the error reports  *)
(* the event's identity and exactly M.                                     *)
(***************************************************************************)
C2_FieldMissingForEveryM ==
  (ppc = "checked" /\ V1_FIELDS \ Keys(e1) # {}) =>
    /\ verdict.kind = "SimpleHashFieldMissing"
    /\ verdict.missing = V1_FIELDS \ Keys(e1)
    /\ verdict.identity = Lookup(e1, "identity")

(***************************************************************************)
(* C3.  When the first response holds an empty list of events and no       *)
(* continuation token, anchor_events returns, after no hasher update and   *)
(* with no error, the SHA-256 digest of the empty input.  C3_SpecDigest    *)
(* reads the digest as the 63 characters the specification prints;         *)
(* C3_EmptyWindow reads it as the 64 characters of the SHA-256 of no       *)
(* bytes.                                                                  *)
(***************************************************************************)
EmptyFirstPage ==
  /\ pages # <<>>
  /\ IsGood(pages[1])
  /\ pages[1].events.v = <<>>
  /\ ~HasToken(pages[1])

SpecEmptyDigest == "e3b0c44298fc1c149afbf4c8996fb92427ae41e4649b934ca495991b7852b85"

C3_SpecDigest ==
  (EmptyFirstPage /\ pc = "returned") => result = SpecEmptyDigest

C3_EmptyWindow ==
  EmptyFirstPage =>
    /\ pc # "raised"
    /\ error = NoError
    /\ fed = <<>>
    /\ hasher = ""
    /\ pc = "returned" =>
         /\ result = "e3b0c44298fc1c149afbf4c8996fb92427ae41e4649b934ca495991b7852b855"
         /\ Len(result) = 64
         /\ Len(requests) = 1

C3_Witness == EmptyFirstPage /\ pc = "returned" /\ result # NoDigest

(***************************************************************************)
(* C4.  Two events that pass __check_event and hold equal values under the *)
(* 14 required fields have the same canonical bytes, whatever the order of *)
(* their keys, whatever keys they hold besides, and whatever order the     *)
(* redaction was built in; a redacted event has the 14 required keys and   *)
(* no others.                                                              *)
(***************************************************************************)
C4_CanonicalBytes ==
  ppc = "canon" =>
    /\ Keys(red1) = V1_FIELDS /\ Len(red1) = Cardinality(V1_FIELDS)
    /\ Keys(red2) = V1_FIELDS /\ Len(red2) = Cardinality(V1_FIELDS)
    /\ SameRequired(e1, e2) => bytes1 = bytes2

\* equal required values; other keys, another key order, another nested
\* order and another redaction order
C4_Witness ==
  /\ ppc = "canon"
  /\ SameRequired(e1, e2)
  /\ Keys(e1) # Keys(e2)
  /\ e1[1][1] # e2[1][1]
  /\ Lookup(e1, "event_attributes") # Lookup(e2, "event_attributes")
  /\ red1 # red2
  /\ bytes1 = bytes2

(***************************************************************************)
(* C5.  Order sensitivity.  C5_AnyDistinctPair: for admissible events that *)
(* differ as mappings, the digest over [E1, E2] differs from the digest    *)
(* over [E2, E1].  C5_DistinctRequired: the same for admissible events     *)
(* that differ in the value of at least one required field.                *)
(***************************************************************************)
C5_AnyDistinctPair ==
  (/\ ppc = "anchored"
   /\ Admissible(e1)
   /\ Admissible(e2)
   /\ ~PyEq(PyDict(e1), PyDict(e2))) => out12.digest # out21.digest

C5_DistinctRequired ==
  (/\ ppc = "anchored"
   /\ Admissible(e1)
   /\ Admissible(e2)
   /\ ~SameRequired(e1, e2)) =>
    /\ out12.error = NoError
    /\ out21.error = NoError
    /\ out12.digest # NoDigest
    /\ out21.digest # NoDigest
    /\ out12.digest # out21.digest

\* two admissible events that differ in their identity alone
C5_Witness ==
  /\ ppc = "anchored"
  /\ Admissible(e1)
  /\ Admissible(e2)
  /\ ~PyEq(Lookup(e1, "identity"), Lookup(e2, "identity"))
  /\ \A k \in V1_FIELDS \ {"identity"} : PyEq(Lookup(e1, k), Lookup(e2, k))
  /\ out12.digest # out21.digest

(***************************************************************************)
(* C6.  A failed fetch or a response without a usable list of events makes *)
(* the call fail with a fetch error; no digest is returned once such a     *)
(* response was received.                                                  *)
(***************************************************************************)
FetchErrorKinds ==
  {"SimpleHashFieldError", "ConnectionError", "JSONDecodeError", "TypeError"}

C6_BadResponseFails ==
  BadResponseSeen =>
    /\ pc \notin {"exhausted", "returned"}
    /\ result = NoDigest
    /\ pc = "raised" => error.kind \in FetchErrorKinds

(***************************************************************************)
(* C7.  list_events yields the events of page 1, then of page 2, and so    *)
(* on, once each and in page order; the first request carries the window,  *)
(* every later request carries the token of the response before it, which  *)
(* held one; the iteration ends at the first response without a token.     *)
(***************************************************************************)
C7_Pagination ==
  LET n == Len(requests) IN
  /\ n >= 1 => requests[1] = FirstParams
  /\ \A j \in 2..n :
       /\ HasToken(Fetched(j - 1))
       /\ requests[j] = [window |-> FALSE,
                         page_token |-> Fetched(j - 1).next_page_token]
  /\ pc = "for" =>
       /\ data = Fetched(n)
       /\ yielded = FlattenTo(n - 1) \o SubSeq(PageEvents(data), 1, idx)
  /\ pc = "get" /\ n >= 1 => yielded = FlattenTo(n) /\ HasToken(Fetched(n))
  /\ pc \in {"exhausted", "returned"} =>
       /\ ~HasToken(Fetched(n))
       /\ yielded = FlattenTo(n)
       /\ n = Len(pages)

\* two pages, three events, all delivered
C7_Witness ==
  /\ pc = "returned"
  /\ Len(requests) = 2
  /\ Len(yielded) = 3
  /\ Len(PageEvents(pages[1])) >= 1
  /\ Len(PageEvents(pages[2])) >= 1
  /\ IsGood(pages[2])

(***************************************************************************)
(* C8.  Every event that is being redacted or encoded, and every event     *)
(* whose bytes the hasher consumed, holds all 14 required fields and the   *)
(* status CONFIRMED or FAILED; at the end of each page the hasher holds    *)
(* the bytes of exactly those events.                                      *)
(***************************************************************************)
C8_OnlyAdmittedEventsHashed ==
  /\ \A j \in 1..Len(fed) : Admissible(fed[j])
  /\ pc \in {"redact", "encode", "update"} => Admissible(event)
  /\ pc = "for" /\ idx = Len(elements(data.events)) => hasher = CanonConcat(fed)

\* two events were hashed before a pending one was refused
C8_Witness ==
  /\ pc = "raised"
  /\ Len(fed) = 2
  /\ Len(yielded) = 3
  /\ Lookup(yielded[3], "confirmation_status") = PyStr("PENDING")

(***************************************************************************)
(* C9.  When anchor_events returns a digest, the hasher started empty and  *)
(* received one update per event delivered, in order, each the canonical   *)
(* bytes of that event, and the source is exhausted; the digest is the     *)
(* hash of the concatenation.  Before the return there is no digest.       *)
(***************************************************************************)
C9_DigestOfAllEvents ==
  /\ pc # "returned" => result = NoDigest
  /\ pc = "returned" =>
       /\ error = NoError
       /\ fed = yielded
       /\ yielded = FlattenTo(Len(requests))
       /\ ~HasToken(Fetched(Len(requests)))
       /\ hasher = CanonConcat(yielded)
       /\ result = (IF yielded = <<>> THEN EmptyDigest
                    ELSE "sha256(" \o CanonConcat(yielded) \o ")")

\* three events over two pages were hashed
C9_Witness ==
  /\ pc = "returned"
  /\ Len(fed) = 3
  /\ Len(requests) = 2
  /\ fed[1] # fed[2]

(***************************************************************************)
(* C10.  The field check precedes the status check: an event that lacks a  *)
(* required field and holds a status other than CONFIRMED and FAILED is    *)
(* rejected with SimpleHashFieldMissing; SimpleHashPendingEventFound, with *)
(* the identity and the status, is raised only for an event that holds all *)
(* 14 fields.                                                              *)
(***************************************************************************)
C10_FieldsBeforeStatus ==
  ppc = "checked" =>
    /\ (/\ V1_FIELDS \ Keys(e1) # {}
        /\ HasKey(e1, "confirmation_status")
        /\ Lookup(e1, "confirmation_status") \notin TerminalStatuses)
         => verdict.kind = "SimpleHashFieldMissing"
    /\ verdict.kind = "SimpleHashPendingEventFound" =>
         /\ V1_FIELDS \subseteq Keys(e1)
         /\ verdict.identity = Lookup(e1, "identity")
         /\ verdict.status = Lookup(e1, "confirmation_status")

====
